---------------------------- MODULE Spec2Model ----------------------------
(***************************************************************************)
(* Royal Gambit: a chess variant with a 52-card deck.  The module models   *)
(* RoyalGambitGame (src/src/game/RoyalGambitGame.ts), the CardSystem it    *)
(* owns (src/src/game/PowerChainSpike.ts, lines 254-405) and the part of   *)
(* the chess.js base class the game calls (turn, move, get, put, remove,   *)
(* board, inCheck).                                                        *)
(*                                                                         *)
(* Conventions.                                                            *)
(*  - A JavaScript string naming a square is the tuple <<c, d>> of the     *)
(*    character code of its first character and the digit parsed from its  *)
(*    second one: "e3" is <<101, 3>>, "z9" is <<122, 9>>.  The empty       *)
(*    string is <<>>, and a field that is undefined is Undefined.          *)
(*  - A card id is the pair <<suit prefix, value>>: "H5" is <<"H", "5">>.  *)
(*  - A piece is [type, color] as in chess.js; NoPiece is an empty square. *)
(*  - Date.now() timestamps of events are left out.                        *)
(***************************************************************************)
EXTENDS Integers, Sequences, FiniteSets

VARIABLES
    board,          \* chess.js: the pieces on the 64 squares
    chessTurn,      \* chess.js: turn(), "w" or "b"
    currentPlayer,  \* gameState.currentPlayer
    hands,          \* gameState.hands
    courtCards,     \* gameState.courtCards
    powerChains,    \* gameState.powerChains
    moveHistory,    \* gameState.moveHistory
    lastCardPlayed, \* gameState.lastCardPlayed
    deck,           \* cardSystem.deck (the draw pile, top at the end)
    discardPile,    \* cardSystem.discardPile
    lastCall        \* the last public call made and the boolean it returned

vars == <<board, chessTurn, currentPlayer, hands, courtCards, powerChains,
          moveHistory, lastCardPlayed, deck, discardPile, lastCall>>

\* The number of successful actions (events) after which the model makes no
\* further call.
MaxActions == 2

HandSize == 5
CourtSize == 3

Players == {"white", "black"}
Colors == {"w", "b"}

\* makeChessMove lines 56, 88; playCard line 106: chessTurn === 'w' ? 'white' : 'black'
PlayerOfTurn(t) == IF t = "w" THEN "white" ELSE "black"

\* endTurn line 658
OtherPlayer(p) == IF p = "white" THEN "black" ELSE "white"

\* applySwapEffect line 555, applyStrikeEffect line 603, getOpponentKingSquare line 685
OpponentColor(c) == IF c = "w" THEN "b" ELSE "w"

----------------------------------------------------------------------------
(* Cards and the card system *)

Suits == <<"hearts", "diamonds", "clubs", "spades">>
Values == <<"A", "2", "3", "4", "5", "6", "7", "8", "9", "10", "J", "Q", "K">>

\* suit.charAt(0).toUpperCase()
SuitPrefix(suit) ==
    CASE suit = "hearts" -> "H"
      [] suit = "diamonds" -> "D"
      [] suit = "clubs" -> "C"
      [] suit = "spades" -> "S"

createCardId(suit, value) == <<SuitPrefix(suit), value>>

MakeCard(suit, value) == [suit |-> suit, value |-> value, id |-> createCardId(suit, value)]

\* createCard(cardId): the card an id names, for ids of the form suit letter + value
createCard(cardId) ==
    LET suit == CASE cardId[1] = "H" -> "hearts"
                  [] cardId[1] = "D" -> "diamonds"
                  [] cardId[1] = "C" -> "clubs"
                  [] cardId[1] = "S" -> "spades"
    IN MakeCard(suit, cardId[2])

\* The deck initializeDeck builds: suits in enum order, values in enum order.
initializeDeck ==
    [i \in 1..(Len(Suits) * Len(Values)) |->
        MakeCard(Suits[((i - 1) \div Len(Values)) + 1], Values[((i - 1) % Len(Values)) + 1])]

NoCard == [suit |-> "none", value |-> "none", id |-> <<"none", "none">>]

RECURSIVE SeqWithout(_, _)
SeqWithout(s, ids) ==
    IF s = <<>> THEN <<>>
    ELSE IF Head(s).id \in ids THEN SeqWithout(Tail(s), ids)
         ELSE <<Head(s)>> \o SeqWithout(Tail(s), ids)

Reverse(s) == [i \in 1..Len(s) |-> s[Len(s) + 1 - i]]

\* One outcome of shuffle(): the permutation of the full deck from which the
\* cards named by top are popped first, in that order.
ShuffleTo(top) ==
    SeqWithout(initializeDeck, {top[i] : i \in 1..Len(top)})
        \o Reverse([i \in 1..Len(top) |-> createCard(top[i])])

\* The outcomes of the constructor's shuffle the model starts from.
ShuffleInputs ==
    { <<  <<"H","5">>, <<"H","8">>, <<"S","A">>, <<"S","3">>, <<"D","3">>,   \* white hand
          <<"S","7">>, <<"S","K">>, <<"H","2">>, <<"D","4">>, <<"C","9">>,   \* black hand
          <<"C","5">>, <<"C","A">>, <<"D","A">>,                              \* white Court
          <<"H","Q">>, <<"S","9">>, <<"D","9">>,                              \* black Court
          <<"H","A">>, <<"S","4">>, <<"D","7">>, <<"C","2">> >>,              \* next draws
       << <<"H","A">>, <<"S","A">>, <<"D","A">>, <<"C","A">>, <<"H","3">>,
          <<"S","2">>, <<"S","5">>, <<"H","4">>, <<"D","5">>, <<"C","6">>,
          <<"S","6">>, <<"D","6">>, <<"C","3">>,
          <<"H","J">>, <<"S","J">>, <<"D","J">>,
          <<"H","6">>, <<"S","8">>, <<"D","8">>, <<"C","4">> >> }

\* What a card-system call leaves: the piles and the card(s) it returned.
\* reshuffleDiscardPile: with an empty discard pile nothing changes; otherwise
\* the discard pile becomes the deck, in an order shuffle() picks.
RECURSIVE ShuffleOutcomes(_)
ShuffleOutcomes(s) ==
    IF s = <<>> THEN {<<>>}
    ELSE UNION { { <<s[i]>> \o p :
                     p \in ShuffleOutcomes([j \in 1..(Len(s) - 1) |-> IF j < i THEN s[j] ELSE s[j + 1]]) }
                 : i \in 1..Len(s) }

\* Mutant of reshuffleDiscardPile: the discard pile is copied, not emptied.
reshuffleDiscardPileKeep(d, disc) ==
    IF Len(disc) = 0 THEN {[deck |-> d, discardPile |-> disc]}
    ELSE {[deck |-> p, discardPile |-> disc] : p \in ShuffleOutcomes(disc)}

reshuffleDiscardPile(d, disc) ==
    IF Len(disc) = 0 THEN {[deck |-> d, discardPile |-> disc]}
    ELSE {[deck |-> p, discardPile |-> <<>>] : p \in ShuffleOutcomes(disc)}

\* Mutant of drawCard: the discard pile is reshuffled whenever it holds a card.
drawCardEager(d, disc) ==
    LET piles == reshuffleDiscardPile(d, disc)
    IN { IF Len(p.deck) = 0
         THEN [deck |-> p.deck, discardPile |-> p.discardPile, card |-> NoCard]
         ELSE [deck |-> SubSeq(p.deck, 1, Len(p.deck) - 1), discardPile |-> p.discardPile,
               card |-> p.deck[Len(p.deck)]]
         : p \in piles }

\* drawCard: reshuffle when the deck is empty, then pop the last card (or null).
drawCard(d, disc) ==
    LET piles == IF Len(d) = 0 THEN reshuffleDiscardPile(d, disc)
                 ELSE {[deck |-> d, discardPile |-> disc]}
    IN { IF Len(p.deck) = 0
         THEN [deck |-> p.deck, discardPile |-> p.discardPile, card |-> NoCard]
         ELSE [deck |-> SubSeq(p.deck, 1, Len(p.deck) - 1), discardPile |-> p.discardPile,
               card |-> p.deck[Len(p.deck)]]
         : p \in piles }

\* Mutant of dealCards: the cards dealt stay in the draw pile.
dealCardsPeek(d, disc, count) ==
    LET k == IF count < Len(d) THEN count ELSE Len(d)
    IN {[deck |-> d, discardPile |-> disc, cards |-> [i \in 1..k |-> d[Len(d) + 1 - i]]]}

\* Mutant of dealCards: the cards come from the draw pile alone.
dealCardsNoReshuffle(d, disc, count) ==
    LET k == IF count < Len(d) THEN count ELSE Len(d)
    IN {[deck |-> SubSeq(d, 1, Len(d) - k), discardPile |-> disc,
         cards |-> [i \in 1..k |-> d[Len(d) + 1 - i]]]}

\* dealCards(count): count draws; a null draw reshuffles and draws once more.
RECURSIVE dealCards(_, _, _)
dealCards(d, disc, count) ==
    IF count = 0 THEN {[deck |-> d, discardPile |-> disc, cards |-> <<>>]}
    ELSE UNION {
        LET after ==
              IF r.card # NoCard THEN {r}
              ELSE UNION { drawCard(q.deck, q.discardPile) :
                             q \in reshuffleDiscardPile(r.deck, r.discardPile) }
        IN UNION { { [deck |-> rest.deck, discardPile |-> rest.discardPile,
                      cards |-> (IF a.card # NoCard THEN <<a.card>> ELSE <<>>) \o rest.cards]
                     : rest \in dealCards(a.deck, a.discardPile, count - 1) }
                   : a \in after }
        : r \in drawCard(d, disc) }

\* Mutant of reset: the deck is shuffled as it is, not built anew.
resetKeepsDeck(d, disc, outcome) == [deck |-> d, discardPile |-> <<>>]

\* reset(): the discard pile is cleared and the deck is built anew and
\* shuffled; outcome is the order shuffle() leaves the new deck in.
reset(d, disc, outcome) == [deck |-> outcome, discardPile |-> <<>>]

\* Mutant of discardCard: the card is pushed twice.
discardCardTwice(disc, card) == Append(Append(disc, card), card)

\* discardCard(card)
discardCard(disc, card) == Append(disc, card)

----------------------------------------------------------------------------
(* Squares and the board *)

Undefined == <<-1>>

\* JavaScript truthiness of an optional string: undefined and '' are falsy.
Falsy(s) == s = Undefined \/ s = <<>>

ValidSquares == {<<f, r>> : f \in 97..104, r \in 1..8}

\* isValidSquare: two characters, file a-h, rank 1-8
isValidSquare(square) ==
    /\ Len(square) = 2
    /\ square[1] >= 97 /\ square[1] <= 104
    /\ square[2] >= 1 /\ square[2] <= 8

\* String.fromCharCode(97 + file) + (8 - rank), rank and file the indices of board()
SquareName(rank, file) == <<97 + file, 8 - rank>>

\* The position of a square in the scan "for rank 0..7, for file 0..7".
ScanIndex(square) == (8 - square[2]) * 8 + (square[1] - 97)

NoPiece == [type |-> "-", color |-> "-"]

Piece(t, c) == [type |-> t, color |-> c]

\* chess.js get(square): the piece, or a falsy value for an empty or unknown square
Get(b, square) == IF square \in ValidSquares THEN b[square] ELSE NoPiece

\* chess.js remove(square)
Remove(b, square) ==
    IF square \in ValidSquares THEN [b EXCEPT ![square] = NoPiece] ELSE b

\* chess.js put(piece, square): refused for an unknown square, and for a king
\* while another king of that colour stands elsewhere
Put(b, piece, square) ==
    IF square \notin ValidSquares THEN b
    ELSE IF piece.type = "k"
            /\ \E s \in ValidSquares : s # square /\ b[s] = piece
         THEN b
         ELSE [b EXCEPT ![square] = piece]

BackRank == <<"r", "n", "b", "q", "k", "b", "n", "r">>

\* The position new Chess() sets up.
StartPosition ==
    [s \in ValidSquares |->
        CASE s[2] = 1 -> Piece(BackRank[s[1] - 96], "w")
          [] s[2] = 2 -> Piece("p", "w")
          [] s[2] = 7 -> Piece("p", "b")
          [] s[2] = 8 -> Piece(BackRank[s[1] - 96], "b")
          [] OTHER -> NoPiece]

\* chess.js load(fen): the piece a letter of the placement field stands for
FenPiece(ch) ==
    CASE ch = "P" -> Piece("p", "w") [] ch = "N" -> Piece("n", "w")
      [] ch = "B" -> Piece("b", "w") [] ch = "R" -> Piece("r", "w")
      [] ch = "Q" -> Piece("q", "w") [] ch = "K" -> Piece("k", "w")
      [] ch = "p" -> Piece("p", "b") [] ch = "n" -> Piece("n", "b")
      [] ch = "b" -> Piece("b", "b") [] ch = "r" -> Piece("r", "b")
      [] ch = "q" -> Piece("q", "b") [] ch = "k" -> Piece("k", "b")

\* The number of empty squares a digit of the placement field stands for.
FenDigit(ch) ==
    CASE ch = "1" -> 1 [] ch = "2" -> 2 [] ch = "3" -> 3 [] ch = "4" -> 4
      [] ch = "5" -> 5 [] ch = "6" -> 6 [] ch = "7" -> 7 [] ch = "8" -> 8
      [] OTHER -> 0

\* One rank of the placement field, character by character, as its squares
\* from file a to file h.
RECURSIVE FenRank(_)
FenRank(chars) ==
    IF chars = <<>> THEN <<>>
    ELSE (IF FenDigit(chars[1]) > 0
          THEN [i \in 1..FenDigit(chars[1]) |-> NoPiece]
          ELSE <<FenPiece(chars[1])>>) \o FenRank(Tail(chars))

\* The board load(fen) sets up: ranks holds the placement field's ranks from
\* rank 8 down to rank 1.
load(ranks) ==
    [s \in ValidSquares |-> FenRank(ranks[9 - s[2]])[s[1] - 96]]

\* The positions loaded into a new game: '4k3/4p3/8/8/8/8/3PP3/2BQK3 w - - 0 1'
\* and '4k3/3pp3/8/8/8/8/3PP3/3QK3 w - - 0 1'.
LoadedPositions ==
    { << <<"4","k","3">>, <<"4","p","3">>, <<"8">>, <<"8">>, <<"8">>, <<"8">>,
         <<"3","P","P","3">>, <<"2","B","Q","K","3">> >>,
      << <<"4","k","3">>, <<"3","p","p","3">>, <<"8">>, <<"8">>, <<"8">>, <<"8">>,
         <<"3","P","P","3">>, <<"3","Q","K","3">> >> }

----------------------------------------------------------------------------
(* chess.js: attacks, check and move().  Castling, en passant and promotion *)
(* moves are not among the moves the model offers.                          *)

Abs(x) == IF x < 0 THEN -x ELSE x

Sign(x) == IF x < 0 THEN -1 ELSE IF x > 0 THEN 1 ELSE 0

\* The squares strictly between two squares of one line are empty.
PathClear(b, from, to) ==
    LET df == Sign(to[1] - from[1])
        dr == Sign(to[2] - from[2])
        n == IF Abs(to[1] - from[1]) > Abs(to[2] - from[2])
             THEN Abs(to[1] - from[1]) ELSE Abs(to[2] - from[2])
    IN \A k \in 1..(n - 1) : b[<<from[1] + k * df, from[2] + k * dr>>] = NoPiece

\* The piece on from attacks the square to.
PieceAttacks(b, from, to) ==
    LET p == b[from]
        df == to[1] - from[1]
        dr == to[2] - from[2]
    IN /\ from # to
       /\ CASE p.type = "p" -> Abs(df) = 1 /\ dr = (IF p.color = "w" THEN 1 ELSE -1)
            [] p.type = "n" -> {Abs(df), Abs(dr)} = {1, 2}
            [] p.type = "k" -> Abs(df) <= 1 /\ Abs(dr) <= 1
            [] p.type = "b" -> Abs(df) = Abs(dr) /\ PathClear(b, from, to)
            [] p.type = "r" -> (df = 0 \/ dr = 0) /\ PathClear(b, from, to)
            [] p.type = "q" -> (df = 0 \/ dr = 0 \/ Abs(df) = Abs(dr)) /\ PathClear(b, from, to)
            [] OTHER -> FALSE

IsAttacked(b, square, by) ==
    \E s \in ValidSquares : b[s].color = by /\ PieceAttacks(b, s, square)

\* chess.js inCheck() asks about the side to move: its king (if it has one)
\* is attacked by the other side.
IsKingAttacked(b, color) ==
    \E k \in ValidSquares :
        /\ b[k] = Piece("k", color)
        /\ IsAttacked(b, k, OpponentColor(color))

inCheck(b, turn) == IsKingAttacked(b, turn)

\* A move chess.js generates for the side to move, before the king test.
PseudoLegal(b, turn, from, to) ==
    LET p == b[from]
        dir == IF turn = "w" THEN 1 ELSE -1
        startRank == IF turn = "w" THEN 2 ELSE 7
        lastRank == IF turn = "w" THEN 8 ELSE 1
    IN /\ p.color = turn
       /\ b[to].color # turn
       /\ IF p.type = "p"
          THEN /\ to[2] # lastRank        \* a promotion move needs a promotion piece
               /\ \/ /\ to[1] = from[1] /\ to[2] = from[2] + dir
                     /\ b[to] = NoPiece
                  \/ /\ to[1] = from[1] /\ to[2] = from[2] + 2 * dir
                     /\ from[2] = startRank
                     /\ b[<<from[1], from[2] + dir>>] = NoPiece
                     /\ b[to] = NoPiece
                  \/ /\ PieceAttacks(b, from, to)
                     /\ b[to].color = OpponentColor(turn)
          ELSE PieceAttacks(b, from, to)

AfterMove(b, from, to) == [b EXCEPT ![from] = NoPiece, ![to] = b[from]]

\* chess.js move({from, to}): accepted when the move is generated and does
\* not leave the mover's king attacked.
IsLegalMove(b, turn, from, to) ==
    /\ from \in ValidSquares
    /\ to \in ValidSquares
    /\ PseudoLegal(b, turn, from, to)
    /\ ~IsKingAttacked(AfterMove(b, from, to), turn)

----------------------------------------------------------------------------
(* Scans of board() *)

\* The first square, in the order of the nested rank/file loops, among a set.
FirstInScan(S) == CHOOSE s \in S : \A t \in S : ScanIndex(s) <= ScanIndex(t)

\* The squares of a set in scan order.
RECURSIVE ScanOrder(_)
ScanOrder(S) ==
    IF S = {} THEN <<>>
    ELSE LET s == FirstInScan(S) IN <<s>> \o ScanOrder(S \ {s})

OwnSquares(b, color) == {s \in ValidSquares : b[s].color = color}

\* getOpponentKingSquare: the first opposing king of the scan, '' when none
getOpponentKingSquare(b, turn) ==
    LET ks == {s \in ValidSquares : b[s] = Piece("k", OpponentColor(turn))}
    IN IF ks = {} THEN <<>> ELSE FirstInScan(ks)

isOwnPiece(b, turn, square) ==
    LET piece == Get(b, square) IN IF piece # NoPiece THEN piece.color = turn ELSE FALSE

isOwnPawn(b, turn, square) ==
    LET piece == Get(b, square)
    IN IF piece # NoPiece THEN piece.color = turn /\ piece.type = "p" ELSE FALSE

isOpponentPiece(b, turn, square) ==
    LET piece == Get(b, square) IN IF piece # NoPiece THEN piece.color # turn ELSE FALSE

Deltas == << <<-1,-1>>, <<-1,0>>, <<-1,1>>, <<0,-1>>, <<0,1>>, <<1,-1>>, <<1,0>>, <<1,1>> >>

\* getAdjacentEmptySquares(centerSquare): the empty neighbours, in Deltas order
getAdjacentEmptySquares(b, centerSquare) ==
    LET file == centerSquare[1] - 97
        rank == centerSquare[2] - 1
        sq(i) == <<97 + file + Deltas[i][1], rank + Deltas[i][2] + 1>>
        onBoard(i) == /\ file + Deltas[i][1] >= 0 /\ file + Deltas[i][1] <= 7
                      /\ rank + Deltas[i][2] >= 0 /\ rank + Deltas[i][2] <= 7
    IN SelectSeq([i \in 1..Len(Deltas) |-> IF onBoard(i) THEN sq(i) ELSE <<>>],
                 LAMBDA s : s # <<>> /\ Get(b, s) = NoPiece)

----------------------------------------------------------------------------
(* Card targets, effects and their validation *)

\* CardTargets: every field is optional.
Targets(destination, source, target, piece1, piece2) ==
    [destination |-> destination, source |-> source, target |-> target,
     piece1 |-> piece1, piece2 |-> piece2]

EmptyTargets == Targets(Undefined, Undefined, Undefined, Undefined, Undefined)

EffectType(suit) ==
    CASE suit = "hearts" -> "rescue"
      [] suit = "diamonds" -> "upgrade"
      [] suit = "clubs" -> "swap"
      [] suit = "spades" -> "strike"
      [] OTHER -> "rescue"

\* Mutant of isPowerChainActive: the boost starts one card late.
isPowerChainActiveLate(chain, suit) ==
    IF chain.suit = suit THEN chain.count >= 2 ELSE FALSE

\* isPowerChainActive(suit), for the chain of the player given
isPowerChainActive(chain, suit) ==
    IF chain.suit = suit THEN chain.count >= 1 ELSE FALSE

\* calculateCardEffect(card), player being gameState.currentPlayer
calculateCardEffect(chains, player, card) ==
    [type |-> EffectType(card.suit),
     isAce |-> card.value = "A",
     isPowerChain |-> isPowerChainActive(chains[player], card.suit)]

\* isValidCardPlay(card, effect, targets)
isValidCardPlay(b, turn, effect, targets) ==
    CASE effect.type = "rescue" ->
            /\ ~Falsy(targets.destination)
            /\ isValidSquare(targets.destination)
            /\ Get(b, targets.destination) = NoPiece
      [] effect.type = "upgrade" ->
            /\ ~Falsy(targets.target)
            /\ IF effect.isAce THEN isOwnPiece(b, turn, targets.target)
               ELSE isOwnPawn(b, turn, targets.target)
      [] effect.type = "swap" ->
            IF effect.isAce
            THEN \/ targets.target # Undefined
                 \/ (~Falsy(targets.piece1) /\ ~Falsy(targets.piece2))
            ELSE targets.piece1 # Undefined /\ targets.piece2 # Undefined
      [] effect.type = "strike" ->
            /\ ~Falsy(targets.target)
            /\ isValidSquare(targets.target)
            /\ IF effect.isAce
               THEN IF targets.target = getOpponentKingSquare(b, turn)
                    THEN inCheck(b, turn)
                    ELSE isOpponentPiece(b, turn, targets.target)
               ELSE isOpponentPiece(b, turn, targets.target)
      [] OTHER -> FALSE

\* What an effect returns and the board it leaves.
Result(ok, b) == [ok |-> ok, board |-> b]

\* The squares of rank index rank (of board()) in a set, by file.
InRank(S, rank) == {s \in S : 8 - s[2] = rank}

\* applyRescueEffect lines 318-340: in every rank of the snapshot taken after
\* the first move, the first own piece standing neither on the source nor on
\* the destination moves to the first empty neighbour of the destination.
RECURSIVE RescueSecond(_, _, _, _, _, _)
RescueSecond(live, snapshot, color, source, destination, rank) ==
    IF rank > 7 THEN live
    ELSE LET cand == InRank({s \in OwnSquares(snapshot, color) :
                               s # source /\ s # destination}, rank)
             adjacentSquares == getAdjacentEmptySquares(live, destination)
         IN IF cand = {} \/ Len(adjacentSquares) = 0
            THEN RescueSecond(live, snapshot, color, source, destination, rank + 1)
            ELSE LET secondSquare == FirstInScan(cand)
                 IN RescueSecond(
                        Put(Remove(live, secondSquare), snapshot[secondSquare], adjacentSquares[1]),
                        snapshot, color, source, destination, rank + 1)

\* applyRescueEffect lines 345-382: the pieces the legacy search collects
piecesToRescue(b, color, effect) ==
    LET kings == {s \in ValidSquares : b[s] = Piece("k", color)}
        first == IF effect.isAce /\ kings # {} THEN <<FirstInScan(kings)>> ELSE <<>>
        requiredCount == IF effect.isPowerChain THEN 2 ELSE 1
        others == ScanOrder({s \in OwnSquares(b, color) :
                                \A i \in 1..Len(first) : first[i] # s})
        \* the count is tested after a push and at the end of every rank
        pushes == IF Len(first) >= requiredCount
                  THEN IF Len(others) > 0 /\ 8 - others[1][2] = 0 THEN 1 ELSE 0
                  ELSE requiredCount - Len(first)
    IN first \o SubSeq(others, 1, IF Len(others) < pushes THEN Len(others) ELSE pushes)

\* Mutant of applyRescueEffect: the source square is emptied before the piece
\* on it is looked at.
applyRescueEffectRemoveFirst(b, turn, effect, targets) ==
    LET destination == targets.destination
        sourceSquare == targets.source
    IN IF Get(b, destination) # NoPiece THEN Result(FALSE, b)
       ELSE IF ~Falsy(sourceSquare)
       THEN LET piece == Get(b, sourceSquare)
            IN IF piece = NoPiece \/ piece.color # turn
               THEN Result(FALSE, Remove(b, sourceSquare))
               ELSE LET moved == Put(Remove(b, sourceSquare), piece, destination)
                    IN Result(TRUE,
                              IF effect.isPowerChain
                              THEN RescueSecond(moved, moved, turn, sourceSquare, destination, 0)
                              ELSE moved)
       ELSE LET found == piecesToRescue(b, turn, effect)
            IN IF Len(found) = 0 THEN Result(FALSE, b)
               ELSE LET moved == Put(Remove(b, found[1]), b[found[1]], destination)
                        adjacentSquares == getAdjacentEmptySquares(moved, destination)
                    IN Result(TRUE,
                              IF effect.isPowerChain /\ Len(found) > 1 /\ Len(adjacentSquares) > 0
                              THEN Put(Remove(moved, found[2]), b[found[2]], adjacentSquares[1])
                              ELSE moved)

\* applyRescueEffect(card, effect, targets)
applyRescueEffect(b, turn, effect, targets) ==
    LET destination == targets.destination
        sourceSquare == targets.source
    IN IF Get(b, destination) # NoPiece THEN Result(FALSE, b)
       ELSE IF ~Falsy(sourceSquare)
       THEN LET piece == Get(b, sourceSquare)
            IN IF piece = NoPiece \/ piece.color # turn THEN Result(FALSE, b)
               ELSE LET moved == Put(Remove(b, sourceSquare), piece, destination)
                    IN Result(TRUE,
                              IF effect.isPowerChain
                              THEN RescueSecond(moved, moved, turn, sourceSquare, destination, 0)
                              ELSE moved)
       ELSE LET found == piecesToRescue(b, turn, effect)
            IN IF Len(found) = 0 THEN Result(FALSE, b)
               ELSE LET moved == Put(Remove(b, found[1]), b[found[1]], destination)
                        adjacentSquares == getAdjacentEmptySquares(moved, destination)
                    IN Result(TRUE,
                              IF effect.isPowerChain /\ Len(found) > 1 /\ Len(adjacentSquares) > 0
                              THEN Put(Remove(moved, found[2]), b[found[2]], adjacentSquares[1])
                              ELSE moved)

\* Mutant of UpgradeSecond: the second piece need not be a pawn, Ace or not.
RECURSIVE UpgradeSecondAnyPiece(_, _, _, _, _, _)
UpgradeSecondAnyPiece(live, snapshot, color, target, isAce, rank) ==
    IF rank > 7 THEN live
    ELSE LET cand == InRank({s \in OwnSquares(snapshot, color) : s # target}, rank)
         IN IF cand = {}
            THEN UpgradeSecondAnyPiece(live, snapshot, color, target, isAce, rank + 1)
            ELSE LET secondSquare == FirstInScan(cand)
                 IN UpgradeSecondAnyPiece(
                        Put(Remove(live, secondSquare),
                            Piece("q", snapshot[secondSquare].color), secondSquare),
                        snapshot, color, target, isAce, rank + 1)

\* applyUpgradeEffect lines 434-459: in every rank of the snapshot taken after
\* the first promotion, the first other own piece that qualifies becomes a queen.
RECURSIVE UpgradeSecond(_, _, _, _, _, _)
UpgradeSecond(live, snapshot, color, target, isAce, rank) ==
    IF rank > 7 THEN live
    ELSE LET cand == InRank({s \in OwnSquares(snapshot, color) :
                               s # target /\ (isAce \/ snapshot[s].type = "p")}, rank)
         IN IF cand = {}
            THEN UpgradeSecond(live, snapshot, color, target, isAce, rank + 1)
            ELSE LET secondSquare == FirstInScan(cand)
                 IN UpgradeSecond(
                        Put(Remove(live, secondSquare),
                            Piece("q", snapshot[secondSquare].color), secondSquare),
                        snapshot, color, target, isAce, rank + 1)

\* applyUpgradeEffect(card, effect, targets)
applyUpgradeEffect(b, turn, effect, targets) ==
    LET target == targets.target
        piece == Get(b, target)
    IN IF piece = NoPiece \/ piece.color # turn THEN Result(FALSE, b)
       ELSE IF ~effect.isAce /\ piece.type # "p" THEN Result(FALSE, b)
       ELSE LET upgraded == Put(Remove(b, target), Piece("q", piece.color), target)
            IN Result(TRUE,
                      IF effect.isPowerChain
                      THEN UpgradeSecond(upgraded, upgraded, turn, target, effect.isAce, 0)
                      ELSE upgraded)

\* Mutant of SwapSquares: the second piece is not put back.
SwapSquaresOneWay(b, square1, piece1, square2, piece2) ==
    Put(Remove(Remove(b, square1), square2), piece1, square2)

\* remove both squares, then put each piece on the other square
SwapSquares(b, square1, piece1, square2, piece2) ==
    Put(Put(Remove(Remove(b, square1), square2), piece1, square2), piece2, square1)

\* applySwapEffect lines 553-583: the first two opposing pieces of the snapshot
\* taken on entry exchange squares.
SwapOpponents(live, snapshot, color) ==
    LET opp == ScanOrder(OwnSquares(snapshot, OpponentColor(color)))
    IN IF Len(opp) >= 2
       THEN SwapSquares(live, opp[1], snapshot[opp[1]], opp[2], snapshot[opp[2]])
       ELSE live

\* applySwapEffect(card, effect, targets)
applySwapEffect(b, turn, effect, targets) ==
    LET own == ScanOrder(OwnSquares(b, turn))
        first ==
          IF effect.isAce /\ ~Falsy(targets.target)
          THEN LET opponentPiece == Get(b, targets.target)
               IN IF opponentPiece = NoPiece \/ opponentPiece.color = turn THEN Result(FALSE, b)
                  ELSE IF Len(own) = 0 THEN Result(FALSE, b)
                  ELSE Result(TRUE, Put(Put(Remove(Remove(b, own[1]), targets.target),
                                            b[own[1]], targets.target),
                                        opponentPiece, own[1]))
          ELSE IF ~Falsy(targets.piece1) /\ ~Falsy(targets.piece2)
          THEN LET piece1 == Get(b, targets.piece1)
                   piece2 == Get(b, targets.piece2)
               IN IF \/ piece1 = NoPiece \/ piece2 = NoPiece
                     \/ piece1.color # turn \/ piece2.color # turn
                  THEN Result(FALSE, b)
                  ELSE Result(TRUE, SwapSquares(b, targets.piece1, piece1, targets.piece2, piece2))
          ELSE IF Len(own) < 2 THEN Result(FALSE, b)
               ELSE Result(TRUE, SwapSquares(b, own[1], b[own[1]], own[2], b[own[2]]))
    IN IF ~first.ok THEN first
       ELSE Result(TRUE, IF effect.isPowerChain THEN SwapOpponents(first.board, b, turn)
                         ELSE first.board)

\* Mutant of applyStrikeEffect: a second opposing piece is removed whether the
\* play is boosted or not.
applyStrikeEffectAlwaysTwo(b, turn, effect, targets) ==
    LET target == targets.target
        targetPiece == Get(b, target)
    IN IF targetPiece = NoPiece \/ targetPiece.color = turn THEN Result(FALSE, b)
       ELSE LET struck == Remove(b, target)
                others == {s \in OwnSquares(struck, OpponentColor(turn)) : s # target}
            IN Result(TRUE,
                      IF others # {} THEN Remove(struck, FirstInScan(others)) ELSE struck)

\* Mutant of applyStrikeEffect: the second piece removed is the first piece
\* of the scan of either colour.
applyStrikeEffectAnyColour(b, turn, effect, targets) ==
    LET target == targets.target
        targetPiece == Get(b, target)
    IN IF targetPiece = NoPiece \/ targetPiece.color = turn THEN Result(FALSE, b)
       ELSE LET struck == Remove(b, target)
                others == {s \in ValidSquares : struck[s] # NoPiece /\ s # target}
            IN Result(TRUE,
                      IF effect.isPowerChain /\ others # {}
                      THEN Remove(struck, FirstInScan(others))
                      ELSE struck)

\* applyStrikeEffect(card, effect, targets)
applyStrikeEffect(b, turn, effect, targets) ==
    LET target == targets.target
        targetPiece == Get(b, target)
    IN IF targetPiece = NoPiece \/ targetPiece.color = turn THEN Result(FALSE, b)
       ELSE LET struck == Remove(b, target)
                others == {s \in OwnSquares(struck, OpponentColor(turn)) : s # target}
            IN Result(TRUE,
                      IF effect.isPowerChain /\ others # {}
                      THEN Remove(struck, FirstInScan(others))
                      ELSE struck)

\* applyCardEffect(card, effect, targets)
applyCardEffect(b, turn, effect, targets) ==
    CASE effect.type = "rescue" -> applyRescueEffect(b, turn, effect, targets)
      [] effect.type = "upgrade" -> applyUpgradeEffect(b, turn, effect, targets)
      [] effect.type = "swap" -> applySwapEffect(b, turn, effect, targets)
      [] effect.type = "strike" -> applyStrikeEffect(b, turn, effect, targets)
      [] OTHER -> Result(FALSE, b)

----------------------------------------------------------------------------
(* The game *)

FindIndex(cards, cardId) ==
    IF \E i \in 1..Len(cards) : cards[i].id = cardId
    THEN CHOOSE i \in 1..Len(cards) :
            cards[i].id = cardId /\ \A j \in 1..(i - 1) : cards[j].id # cardId
    ELSE 0

\* Mutant of Splice: the first card is removed, whichever was played.
SpliceFirst(cards, i) == Tail(cards)

\* sourceCards.splice(cardIndex, 1)
Splice(cards, i) == [j \in 1..(Len(cards) - 1) |-> IF j < i THEN cards[j] ELSE cards[j + 1]]

\* findCardInPlayerHands(cardId): the hand first, then the Court, of player
findCardInPlayerHands(player, cardId) ==
    IF FindIndex(hands[player], cardId) # 0
    THEN hands[player][FindIndex(hands[player], cardId)]
    ELSE IF FindIndex(courtCards[player], cardId) # 0
    THEN courtCards[player][FindIndex(courtCards[player], cardId)]
    ELSE NoCard

\* Mutant of findBestSourceForHearts: the first own piece of the scan, always.
findBestSourceForHeartsFirstPiece(b, turn, destination) ==
    IF OwnSquares(b, turn) # {} THEN FirstInScan(OwnSquares(b, turn)) ELSE Undefined

\* findBestSourceForHearts(destination)
findBestSourceForHearts(b, turn, destination) ==
    IF destination = <<101, 3>> /\ Get(b, <<100, 2>>).color = turn
    THEN <<100, 2>>
    ELSE IF OwnSquares(b, turn) # {} THEN FirstInScan(OwnSquares(b, turn))
    ELSE Undefined

\* convertLegacyTarget(cardId, target); it runs before playCard syncs the turn
convertLegacyTarget(cardId, target) ==
    IF Falsy(target) THEN EmptyTargets
    ELSE LET card == findCardInPlayerHands(currentPlayer, cardId)
         IN IF card = NoCard THEN [EmptyTargets EXCEPT !.target = target]
            ELSE IF card.suit = "hearts"
            THEN IF card.value = "A" THEN [EmptyTargets EXCEPT !.destination = target]
                 ELSE [EmptyTargets EXCEPT !.destination = target,
                          !.source = findBestSourceForHearts(board, chessTurn, target)]
            ELSE [EmptyTargets EXCEPT !.target = target]

\* Mutant of updatePowerChain: a card of another suit keeps the count going.
updatePowerChainKeepsCount(chains, player, suit) ==
    [chains EXCEPT ![player] = [suit |-> suit, count |-> chains[player].count + 1]]

\* Mutant of updatePowerChain: a card of the same suit restarts the chain.
updatePowerChainNoIncrement(chains, player, suit) ==
    [chains EXCEPT ![player] = [suit |-> suit, count |-> 1]]

\* Mutant of updatePowerChain: the chain of the other player is the one updated.
updatePowerChainOtherPlayer(chains, player, suit) ==
    IF chains[OtherPlayer(player)].suit = suit
    THEN [chains EXCEPT ![OtherPlayer(player)] =
                            [suit |-> suit, count |-> chains[OtherPlayer(player)].count + 1]]
    ELSE [chains EXCEPT ![OtherPlayer(player)] = [suit |-> suit, count |-> 1]]

\* updatePowerChain(suit): gameState.powerChains afterwards, player being
\* gameState.currentPlayer
updatePowerChain(chains, player, suit) ==
    IF chains[player].suit = suit
    THEN [chains EXCEPT ![player] = [suit |-> suit, count |-> chains[player].count + 1]]
    ELSE [chains EXCEPT ![player] = [suit |-> suit, count |-> 1]]

\* Mutant of PushIfDrawn: the card drawn is dropped.
PushIfDrawnNever(cards, newCard) == cards

\* playCard lines 143-146, endTurn lines 650-653: if (newCard) push(newCard)
PushIfDrawn(cards, newCard) ==
    IF newCard # NoCard THEN Append(cards, newCard) ELSE cards

\* Mutant of NeedsCard: a full hand is topped up as well.
NeedsCardWhenFull(hand) == Len(hand) <= HandSize

\* endTurn lines 647-654: whether the hand is topped up
NeedsCard(hand) == Len(hand) < HandSize

Call(op, fromCourt, ok) == [op |-> op, fromCourt |-> fromCourt, ok |-> ok]

\* Mutant of MoveEvent: the player recorded is the one to move after the move.
MoveEventAfterSync(player, from, to) ==
    [type |-> "move", player |-> OtherPlayer(player),
     data |-> [from |-> from, to |-> to, promotion |-> Undefined]]

MoveEvent(player, from, to) ==
    [type |-> "move", player |-> player,
     data |-> [from |-> from, to |-> to, promotion |-> Undefined]]

CardEvent(player, card, effect, targets) ==
    [type |-> "card", player |-> player,
     data |-> [card |-> card, effect |-> effect, targets |-> targets]]

\* Mutant of makeChessMove: a move made draws a card into the mover's hand.
makeChessMoveDraws(from, to) ==
    LET expectedPlayer == PlayerOfTurn(chessTurn)
    IN /\ Len(moveHistory) < MaxActions
       /\ IF IsLegalMove(board, chessTurn, from, to)
          THEN \E h \in drawCard(deck, discardPile) :
               /\ board' = AfterMove(board, from, to)
               /\ chessTurn' = OpponentColor(chessTurn)
               /\ moveHistory' = Append(moveHistory, MoveEvent(expectedPlayer, from, to))
               /\ currentPlayer' = PlayerOfTurn(OpponentColor(chessTurn))
               /\ lastCall' = Call("makeChessMove", FALSE, TRUE)
               /\ hands' = [hands EXCEPT ![expectedPlayer] = PushIfDrawn(@, h.card)]
               /\ deck' = h.deck
               /\ discardPile' = h.discardPile
          ELSE /\ currentPlayer' = expectedPlayer
               /\ lastCall' = Call("makeChessMove", FALSE, FALSE)
               /\ UNCHANGED <<board, chessTurn, moveHistory, hands, deck, discardPile>>
       /\ UNCHANGED <<courtCards, powerChains, lastCardPlayed>>

\* makeChessMove(from, to)
makeChessMove(from, to) ==
    LET expectedPlayer == PlayerOfTurn(chessTurn)
    IN /\ Len(moveHistory) < MaxActions
       /\ IF IsLegalMove(board, chessTurn, from, to)
          THEN /\ board' = AfterMove(board, from, to)
               /\ chessTurn' = OpponentColor(chessTurn)
               /\ moveHistory' = Append(moveHistory, MoveEvent(expectedPlayer, from, to))
               /\ currentPlayer' = PlayerOfTurn(OpponentColor(chessTurn))
               /\ lastCall' = Call("makeChessMove", FALSE, TRUE)
          ELSE /\ currentPlayer' = expectedPlayer
               /\ lastCall' = Call("makeChessMove", FALSE, FALSE)
               /\ UNCHANGED <<board, chessTurn, moveHistory>>
       /\ UNCHANGED <<hands, courtCards, powerChains, lastCardPlayed, deck, discardPile>>

\* playCard lines 113-136: the call passes the lookup of the card, the
\* validation and the effect, and so returns true
CardPlayAccepted(cardId, targets, fromCourt) ==
    LET player == PlayerOfTurn(chessTurn)
        sourceCards == IF fromCourt THEN courtCards[player] ELSE hands[player]
        cardIndex == FindIndex(sourceCards, cardId)
        effect == calculateCardEffect(powerChains, player, sourceCards[cardIndex])
    IN /\ cardIndex # 0
       /\ isValidCardPlay(board, chessTurn, effect, targets)
       /\ applyCardEffect(board, chessTurn, effect, targets).ok

\* playCard after the conversion of its targets argument (lines 104-166)
PlayCardStep(cardId, targets, fromCourt) ==
    LET player == PlayerOfTurn(chessTurn)
        sourceCards == IF fromCourt THEN courtCards[player] ELSE hands[player]
        cardIndex == FindIndex(sourceCards, cardId)
        card == sourceCards[cardIndex]
        effect == calculateCardEffect(powerChains, player, card)
        applied == applyCardEffect(board, chessTurn, effect, targets)
    IN /\ IF ~CardPlayAccepted(cardId, targets, fromCourt)
          THEN /\ currentPlayer' = player
               /\ lastCall' = Call("playCard", fromCourt, FALSE)
               \* the board is as the effect left it, if the call got that far
               /\ board' = IF cardIndex # 0 /\ isValidCardPlay(board, chessTurn, effect, targets)
                            THEN applied.board
                            ELSE board
               /\ UNCHANGED <<chessTurn, hands, courtCards, powerChains,
                              moveHistory, lastCardPlayed, deck, discardPile>>
          ELSE \E c \in (IF fromCourt THEN drawCard(deck, discardPile)
                         ELSE {[deck |-> deck, discardPile |-> discardPile, card |-> NoCard]}) :
               LET hand1 == IF fromCourt THEN hands[player] ELSE Splice(sourceCards, cardIndex)
                   court1 == IF fromCourt
                             THEN PushIfDrawn(Splice(sourceCards, cardIndex), c.card)
                             ELSE courtCards[player]
               IN \E h \in (IF NeedsCard(hand1) THEN drawCard(c.deck, c.discardPile)
                            ELSE {[deck |-> c.deck, discardPile |-> c.discardPile,
                                   card |-> NoCard]}) :
                    /\ board' = applied.board
                    /\ courtCards' = [courtCards EXCEPT ![player] = court1]
                    /\ hands' = [hands EXCEPT ![player] = PushIfDrawn(hand1, h.card)]
                    /\ deck' = h.deck
                    /\ discardPile' = h.discardPile
                    /\ moveHistory' = Append(moveHistory, CardEvent(player, card, effect, targets))
                    /\ powerChains' = updatePowerChain(powerChains, player, card.suit)
                    /\ lastCardPlayed' = [player |-> player, suit |-> card.suit]
                    /\ currentPlayer' = OtherPlayer(player)
                    /\ lastCall' = Call("playCard", fromCourt, TRUE)
                    /\ UNCHANGED chessTurn

\* A playCard call made while fewer than MaxActions events are recorded.
PlayCardBody(cardId, targets, fromCourt) ==
    /\ Len(moveHistory) < MaxActions
    /\ PlayCardStep(cardId, targets, fromCourt)

\* The squares and targets the model's callers pass.
MoveInputs ==
    { << <<101, 2>>, <<101, 4>> >>,     \* e2-e4
      << <<103, 1>>, <<102, 3>> >>,     \* g1-f3
      << <<101, 7>>, <<101, 5>> >>,     \* e7-e5
      << <<101, 2>>, <<101, 5>> >> }    \* e2-e5, not a move

TargetInputs ==
    { EmptyTargets,
      [EmptyTargets EXCEPT !.destination = <<101, 3>>, !.source = <<100, 2>>],  \* d2 to e3
      [EmptyTargets EXCEPT !.destination = <<100, 6>>, !.source = <<103, 1>>],  \* g1 to d6
      [EmptyTargets EXCEPT !.destination = <<101, 2>>, !.source = <<100, 2>>],  \* d2 to e2
      [EmptyTargets EXCEPT !.destination = <<101, 3>>, !.source = <<101, 1>>],  \* e1 to e3
      [EmptyTargets EXCEPT !.destination = <<101, 6>>],                         \* to e6
      [EmptyTargets EXCEPT !.target = <<100, 2>>],                              \* d2
      [EmptyTargets EXCEPT !.target = <<101, 1>>],                              \* e1
      [EmptyTargets EXCEPT !.target = <<101, 7>>],                              \* e7
      [EmptyTargets EXCEPT !.target = <<100, 7>>],                              \* d7
      [EmptyTargets EXCEPT !.target = <<101, 8>>],                              \* e8
      [EmptyTargets EXCEPT !.target = <<122, 9>>],                              \* z9
      [EmptyTargets EXCEPT !.piece1 = <<100, 2>>, !.piece2 = <<100, 1>>],       \* d2, d1
      [EmptyTargets EXCEPT !.piece1 = <<100, 2>>, !.piece2 = <<101, 7>>] }      \* d2, e7

LegacyInputs == { <<>>, <<101, 3>>, <<101, 7>>, <<122, 9>> }     \* '', 'e3', 'e7', 'z9'

IdsOf(cards) == {cards[i].id : i \in 1..Len(cards)}

\* The ids passed: the cards of the side to move, one card of the other
\* side's hand and of its Court, and an id no card has.
CardIdInputs ==
    LET player == PlayerOfTurn(chessTurn)
        other == OtherPlayer(player)
    IN IdsOf(hands[player]) \cup IdsOf(courtCards[player])
         \cup IdsOf(SubSeq(hands[other], 1, 1)) \cup IdsOf(SubSeq(courtCards[other], 1, 1))
         \cup {<<"X", "0">>}

\* The (cardId, fromCourt) pairs passed: every card of the side to move with
\* the flag of the place it lies in; and, for the lookups that fail, one card
\* of each place with the other flag, one card of the other side's hand and
\* of its Court, and an id no card has.
CardInputs ==
    LET player == PlayerOfTurn(chessTurn)
        other == OtherPlayer(player)
    IN {<<id, FALSE>> : id \in IdsOf(hands[player])}
         \cup {<<id, TRUE>> : id \in IdsOf(courtCards[player])}
         \cup {<<id, TRUE>> : id \in IdsOf(SubSeq(hands[player], 1, 1))}
         \cup {<<id, FALSE>> : id \in IdsOf(SubSeq(courtCards[player], 1, 1))}
         \cup {<<id, FALSE>> : id \in IdsOf(SubSeq(hands[other], 1, 1))}
         \cup {<<id, TRUE>> : id \in IdsOf(SubSeq(courtCards[other], 1, 1))}
         \cup {<< <<"X", "0">>, FALSE >>}

\* playCard(cardId, targets, fromCourt) with a CardTargets object (or none)
playCard(cardId, targets, fromCourt) == PlayCardBody(cardId, targets, fromCourt)

\* playCard(cardId, target, fromCourt) with the legacy single string
playCardLegacy(cardId, target, fromCourt) ==
    PlayCardBody(cardId, convertLegacyTarget(cardId, target), fromCourt)

Init ==
    \E top \in ShuffleInputs :
      \E wh \in dealCards(ShuffleTo(top), <<>>, HandSize) :
        \E bh \in dealCards(wh.deck, wh.discardPile, HandSize) :
          \E wc \in dealCards(bh.deck, bh.discardPile, CourtSize) :
            \E bc \in dealCards(wc.deck, wc.discardPile, CourtSize) :
              /\ board = StartPosition
              /\ chessTurn = "w"
              /\ currentPlayer = PlayerOfTurn("w")
              /\ hands = [white |-> wh.cards, black |-> bh.cards]
              /\ courtCards = [white |-> wc.cards, black |-> bc.cards]
              /\ powerChains = [p \in Players |-> [suit |-> "none", count |-> 0]]
              /\ moveHistory = <<>>
              /\ lastCardPlayed = [player |-> "none", suit |-> "none"]
              /\ deck = bc.deck
              /\ discardPile = bc.discardPile
              /\ lastCall = Call("new", FALSE, TRUE)

ChessMove == \E m \in MoveInputs : makeChessMove(m[1], m[2])

CardPlay == \E c \in CardInputs, t \in TargetInputs : playCard(c[1], t, c[2])

LegacyCardPlay == \E c \in CardInputs, t \in LegacyInputs : playCardLegacy(c[1], t, c[2])

Next == ChessMove \/ CardPlay \/ LegacyCardPlay

Spec == Init /\ [][Next]_vars

\* A new game into which a position is then loaded: load() replaces the
\* board and the side to move, and leaves the cards and gameState alone.
LoadInit ==
    \E ranks \in LoadedPositions :
      \E wh \in dealCards(ShuffleTo(CHOOSE top \in ShuffleInputs : top[1] = <<"H", "5">>),
                           <<>>, HandSize) :
        \E bh \in dealCards(wh.deck, wh.discardPile, HandSize) :
          \E wc \in dealCards(bh.deck, bh.discardPile, CourtSize) :
            \E bc \in dealCards(wc.deck, wc.discardPile, CourtSize) :
              /\ board = load(ranks)
              /\ chessTurn = "w"
              /\ currentPlayer = PlayerOfTurn("w")
              /\ hands = [white |-> wh.cards, black |-> bh.cards]
              /\ courtCards = [white |-> wc.cards, black |-> bc.cards]
              /\ powerChains = [p \in Players |-> [suit |-> "none", count |-> 0]]
              /\ moveHistory = <<>>
              /\ lastCardPlayed = [player |-> "none", suit |-> "none"]
              /\ deck = bc.deck
              /\ discardPile = bc.discardPile
              /\ lastCall = Call("new", FALSE, TRUE)

LoadSpec == LoadInit /\ [][Next]_vars

----------------------------------------------------------------------------
(* A long game of card plays: white plays card after card until the draw   *)
(* pile is nearly empty, and then a few more.                              *)

ValueIndex(value) == CHOOSE i \in 1..Len(Values) : Values[i] = value

\* The outcome of the constructor's shuffle this game starts from: white is
\* dealt S4 D3 S6 D5 CA and the Court DA D7 S8, black S9 S10 SJ SQ SK and the
\* Court D9 D10 DJ; the draws then alternate Hearts and Clubs (HA C2 H2 ...
\* CK HK), then SA D2 S3 D4 S5 D6 S7 D8 S2, and DQ and DK come last.
DrainShuffle ==
    << <<"S","4">>, <<"D","3">>, <<"S","6">>, <<"D","5">>, <<"C","A">>,
       <<"S","9">>, <<"S","10">>, <<"S","J">>, <<"S","Q">>, <<"S","K">>,
       <<"D","A">>, <<"D","7">>, <<"S","8">>,
       <<"D","9">>, <<"D","10">>, <<"D","J">> >>
    \o [i \in 1..(2 * Len(Values) - 1) |->
          IF i % 2 = 1 THEN <<"H", Values[(i + 1) \div 2]>> ELSE <<"C", Values[(i \div 2) + 1]>>]
    \o << <<"S","A">>, <<"D","2">>, <<"S","3">>, <<"D","4">>, <<"S","5">>,
          <<"D","6">>, <<"S","7">>, <<"D","8">>, <<"S","2">>,
          <<"D","Q">>, <<"D","K">> >>

\* The targets the caller passes with a card: a Hearts card moves the knight
\* between g1 and h3, a Clubs card exchanges c1 and d1, a Spades card of
\* value A, 2 .. 8 strikes a7, b7 .. h7 and a Diamonds card of value A, 2 .. 8
\* upgrades a2, b2 .. h2.
DrainTargets(card) ==
    CASE card.suit = "hearts" ->
            { [EmptyTargets EXCEPT !.destination = <<104, 3>>, !.source = <<103, 1>>],
              [EmptyTargets EXCEPT !.destination = <<103, 1>>, !.source = <<104, 3>>] }
      [] card.suit = "clubs" ->
            { [EmptyTargets EXCEPT !.piece1 = <<99, 1>>, !.piece2 = <<100, 1>>] }
      [] card.suit = "spades" ->
            { [EmptyTargets EXCEPT !.target = <<96 + ValueIndex(card.value), 7>>] }
      [] card.suit = "diamonds" ->
            { [EmptyTargets EXCEPT !.target = <<96 + ValueIndex(card.value), 2>>] }

\* The number of cards left in the draw pile after the deal, less one.
DrainPlays == Len(initializeDeck) - 2 * (HandSize + CourtSize) - 1

DrainInit ==
    \E wh \in dealCards(ShuffleTo(DrainShuffle), <<>>, HandSize) :
      \E bh \in dealCards(wh.deck, wh.discardPile, HandSize) :
        \E wc \in dealCards(bh.deck, bh.discardPile, CourtSize) :
          \E bc \in dealCards(wc.deck, wc.discardPile, CourtSize) :
            /\ board = StartPosition
            /\ chessTurn = "w"
            /\ currentPlayer = PlayerOfTurn("w")
            /\ hands = [white |-> wh.cards, black |-> bh.cards]
            /\ courtCards = [white |-> wc.cards, black |-> bc.cards]
            /\ powerChains = [p \in Players |-> [suit |-> "none", count |-> 0]]
            /\ moveHistory = <<>>
            /\ lastCardPlayed = [player |-> "none", suit |-> "none"]
            /\ deck = bc.deck
            /\ discardPile = bc.discardPile
            /\ lastCall = Call("new", FALSE, TRUE)

\* While more than one card is left to draw, the side to move plays the
\* card it drew last.
DrainPlay ==
    LET hand == hands[PlayerOfTurn(chessTurn)]
        card == hand[Len(hand)]
    IN /\ Len(deck) > 1
       /\ Len(hand) > 0
       /\ \E t \in DrainTargets(card) : PlayCardStep(card.id, t, FALSE)

\* With at most one card left to draw, the side to move plays any card of
\* its hand or of its Court, with the card's targets or with none.
ShortPlay ==
    LET player == PlayerOfTurn(chessTurn)
    IN /\ Len(deck) <= 1
       /\ Len(moveHistory) < DrainPlays + MaxActions
       /\ \/ \E i \in 1..Len(hands[player]) :
               \E t \in DrainTargets(hands[player][i]) \cup {EmptyTargets} :
                  PlayCardStep(hands[player][i].id, t, FALSE)
          \/ \E i \in 1..Len(courtCards[player]) :
               \E t \in DrainTargets(courtCards[player][i]) \cup {EmptyTargets} :
                  PlayCardStep(courtCards[player][i].id, t, TRUE)

DrainNext == DrainPlay \/ ShortPlay

DrainSpec == DrainInit /\ [][DrainNext]_vars

----------------------------------------------------------------------------
(* A CardSystem on its own, as the unit tests of the card system use it:   *)
(* no game is set up, and the game's variables keep the values given here. *)

\* The largest discard pile the caller builds.
MaxDiscards == 3

\* The cards the caller passes to discardCard, made by createCard.
DiscardInputs == { createCard(<<"C", "K">>), createCard(<<"S", "K">>), createCard(<<"D", "Q">>) }

\* The counts the caller passes to dealCards.
DealInputs == { CourtSize, 2 * (HandSize + CourtSize) }

\* A call of the card system and the card it returned (NoCard for null or
\* for a call that returns no card).
CardSystemCall(op, card) == [op |-> op, card |-> card]

\* A dealCards(count) call and the list of cards it returned.
CardSystemDeal(count, cards) ==
    [op |-> "dealCards", card |-> NoCard, count |-> count, cards |-> cards]

CardSystemInit ==
    \E top \in ShuffleInputs :
        /\ deck = ShuffleTo(top)
        /\ discardPile = <<>>
        /\ lastCall = CardSystemCall("new", NoCard)
        /\ board = StartPosition
        /\ chessTurn = "w"
        /\ currentPlayer = PlayerOfTurn("w")
        /\ hands = [p \in Players |-> <<>>]
        /\ courtCards = [p \in Players |-> <<>>]
        /\ powerChains = [p \in Players |-> [suit |-> "none", count |-> 0]]
        /\ moveHistory = <<>>
        /\ lastCardPlayed = [player |-> "none", suit |-> "none"]

GameUnchanged ==
    UNCHANGED <<board, chessTurn, currentPlayer, hands, courtCards, powerChains,
                moveHistory, lastCardPlayed>>

\* cardSystem.drawCard()
DrawCard ==
    \E r \in drawCard(deck, discardPile) :
        /\ deck' = r.deck
        /\ discardPile' = r.discardPile
        /\ lastCall' = CardSystemCall("drawCard", r.card)
        /\ GameUnchanged

\* cardSystem.dealCards(count)
DealCards ==
    \E count \in DealInputs :
      \E r \in dealCards(deck, discardPile, count) :
        /\ deck' = r.deck
        /\ discardPile' = r.discardPile
        /\ lastCall' = CardSystemDeal(count, r.cards)
        /\ GameUnchanged

\* cardSystem.discardCard(card)
DiscardCard ==
    \E card \in DiscardInputs :
        /\ Len(discardPile) < MaxDiscards
        /\ discardPile' = discardCard(discardPile, card)
        /\ lastCall' = CardSystemCall("discardCard", NoCard)
        /\ UNCHANGED deck
        /\ GameUnchanged

\* The orders reset's shuffle leaves the new deck in.
ResetOutcomes == { ShuffleTo(top) : top \in ShuffleInputs }

\* cardSystem.reset()
Reset ==
    \E outcome \in ResetOutcomes :
        /\ deck' = reset(deck, discardPile, outcome).deck
        /\ discardPile' = reset(deck, discardPile, outcome).discardPile
        /\ lastCall' = CardSystemCall("reset", NoCard)
        /\ GameUnchanged

CardSystemNext == DrawCard \/ DealCards \/ DiscardCard \/ Reset

CardSystemSpec == CardSystemInit /\ [][CardSystemNext]_vars

\* A CardSystem whose caller keeps the cards it is given and discards only
\* cards it holds.  The caller's cards are kept in hands["white"].
Outstanding == hands["white"]

HeldUnchanged ==
    UNCHANGED <<board, chessTurn, currentPlayer, courtCards, powerChains,
                moveHistory, lastCardPlayed>>

\* const card = cardSystem.drawCard(); the caller keeps it
HeldDraw ==
    \E r \in drawCard(deck, discardPile) :
        /\ deck' = r.deck
        /\ discardPile' = r.discardPile
        /\ hands' = [hands EXCEPT !["white"] = PushIfDrawn(@, r.card)]
        /\ lastCall' = CardSystemCall("drawCard", r.card)
        /\ HeldUnchanged

\* const cards = cardSystem.dealCards(count); the caller keeps them
HeldDeal ==
    \E count \in DealInputs :
      \E r \in dealCards(deck, discardPile, count) :
        /\ deck' = r.deck
        /\ discardPile' = r.discardPile
        /\ hands' = [hands EXCEPT !["white"] = @ \o r.cards]
        /\ lastCall' = CardSystemDeal(count, r.cards)
        /\ HeldUnchanged

\* cardSystem.discardCard(card) for a card the caller holds
HeldDiscard ==
    \E i \in 1..Len(Outstanding) :
        /\ Outstanding[i] \in DiscardInputs
        /\ discardPile' = discardCard(discardPile, Outstanding[i])
        /\ hands' = [hands EXCEPT !["white"] = Splice(@, i)]
        /\ lastCall' = CardSystemCall("discardCard", NoCard)
        /\ UNCHANGED deck
        /\ HeldUnchanged

HeldNext == HeldDraw \/ HeldDeal \/ HeldDiscard

HeldSpec == CardSystemInit /\ [][HeldNext]_vars

----------------------------------------------------------------------------
(* The comparison of two cards for a joust, as the test utilities compute   *)
(* it: RuleValidator.validateJoust and CardTestUtils.compareCards.          *)

\* Mutant of getCardValue: the Ace counts 1.
getCardValueAceLow(card) ==
    IF card.value = "A" THEN 1 ELSE ValueIndex(card.value)

\* getCardValue(card): valueMap[card.value] || 0
getCardValue(card) ==
    CASE card.value = "2" -> 2   [] card.value = "3" -> 3   [] card.value = "4" -> 4
      [] card.value = "5" -> 5   [] card.value = "6" -> 6   [] card.value = "7" -> 7
      [] card.value = "8" -> 8   [] card.value = "9" -> 9   [] card.value = "10" -> 10
      [] card.value = "J" -> 11  [] card.value = "Q" -> 12  [] card.value = "K" -> 13
      [] card.value = "A" -> 14
      [] OTHER -> 0

\* compareCards(card1, card2)
compareCards(card1, card2) == getCardValue(card1) - getCardValue(card2)

\* validateJoust(attackCard, defendCard, expectedWinner): the result object;
\* an error message is the pair of the winners it names.
validateJoust(attackCard, defendCard, expectedWinner) ==
    LET attackValue == getCardValue(attackCard)
        defendValue == getCardValue(defendCard)
        actualWinner == IF attackValue > defendValue THEN "attacker"
                        ELSE IF defendValue > attackValue THEN "defender"
                        ELSE "tie"
    IN [isValid |-> TRUE,
        errors |-> IF actualWinner # expectedWinner
                   THEN << <<expectedWinner, actualWinner>> >>
                   ELSE <<>>,
        warnings |-> <<>>]

Winners == {"attacker", "defender", "tie"}

\* The cards compared: every card of the deck.
JoustCards == {initializeDeck[i] : i \in 1..Len(initializeDeck)}

\* A call on two cards and what it returned.
JoustCall(op, attack, defend, expected, result) ==
    [op |-> op, attack |-> attack, defend |-> defend, expected |-> expected,
     result |-> result]

\* The two cards are made; no call has been made on them yet.
JoustInit ==
    \E attack \in JoustCards, defend \in JoustCards :
        /\ lastCall = JoustCall("createCard", attack, defend, "none", 0)
        /\ deck = <<>>
        /\ discardPile = <<>>
        /\ board = StartPosition
        /\ chessTurn = "w"
        /\ currentPlayer = PlayerOfTurn("w")
        /\ hands = [p \in Players |-> <<>>]
        /\ courtCards = [p \in Players |-> <<>>]
        /\ powerChains = [p \in Players |-> [suit |-> "none", count |-> 0]]
        /\ moveHistory = <<>>
        /\ lastCardPlayed = [player |-> "none", suit |-> "none"]

\* ruleValidator.validateJoust(attackCard, defendCard, expectedWinner)
ValidateJoust ==
    \E expected \in Winners :
        /\ lastCall' = JoustCall("validateJoust", lastCall.attack, lastCall.defend, expected,
                                 validateJoust(lastCall.attack, lastCall.defend, expected))
        /\ UNCHANGED <<deck, discardPile>>
        /\ GameUnchanged

\* CardTestUtils.compareCards(attackCard, defendCard)
CompareCards ==
    /\ lastCall' = JoustCall("compareCards", lastCall.attack, lastCall.defend, "none",
                             compareCards(lastCall.attack, lastCall.defend))
    /\ UNCHANGED <<deck, discardPile>>
    /\ GameUnchanged

JoustNext == ValidateJoust \/ CompareCards

JoustSpec == JoustInit /\ [][JoustNext]_vars

----------------------------------------------------------------------------
(* Properties *)

LastEvent == moveHistory[Len(moveHistory)]

\* The call of a step returned true / false.
Succeeded == lastCall'.ok
Failed == ~lastCall'.ok

AllCards(p) == hands[p] \o courtCards[p]

Held == deck \o discardPile \o AllCards("white") \o AllCards("black")

C2_TurnUnchangedOnFailure ==
    [][Failed => currentPlayer' = currentPlayer]_vars

C4_DeckConservation ==
    /\ Len(Held) = Len(initializeDeck)
    /\ \A i, j \in 1..Len(Held) : i # j => Held[i].id # Held[j].id

\* C5: immediately after every successful playCard the played card is in the
\* discard pile.
C5_PlayedCardDiscarded ==
    (lastCall.op = "playCard" /\ lastCall.ok)
        => \E i \in 1..Len(discardPile) : discardPile[i].id = LastEvent.data.card.id

\* C6: each hand holds between 0 and 5 cards and each Court between 0 and 3.
C6_HandCourtBounds ==
    \A p \in Players :
        /\ Len(hands[p]) >= 0 /\ Len(hands[p]) <= HandSize
        /\ Len(courtCards[p]) >= 0 /\ Len(courtCards[p]) <= CourtSize

\* A card was played from a full Court while the hand was full, and has been
\* replaced; another card was played from the hand and the hand topped up.
C6_Witness ==
    /\ lastCall = Call("playCard", TRUE, TRUE)
    /\ Len(moveHistory) = 2
    /\ moveHistory[1].type = "card"
    /\ moveHistory[1].player = LastEvent.player
    /\ Len(hands[LastEvent.player]) = HandSize
    /\ Len(courtCards[LastEvent.player]) = CourtSize
    /\ \E i \in 1..HandSize : hands[LastEvent.player][i].id \notin
                                {<<"H","5">>, <<"H","8">>, <<"S","A">>, <<"S","3">>, <<"D","3">>,
                                 <<"H","A">>, <<"D","A">>, <<"C","A">>, <<"H","3">>}

\* C7: a successful card play by P is boosted (in the effect recorded and in
\* the effect applied to the board) exactly when, before the play, P's chain
\* suit is the card's suit and P's count is at least 1.
C7_BoostDecision ==
    [][(Succeeded /\ lastCall'.op = "playCard") =>
         LET e == LastEvent'
             boosted == /\ powerChains[e.player].suit = e.data.card.suit
                        /\ powerChains[e.player].count >= 1
         IN /\ e.data.effect.isPowerChain = boosted
            /\ board' = applyCardEffect(board, chessTurn,
                                        [e.data.effect EXCEPT !.isPowerChain = boosted],
                                        e.data.targets).board]_vars

\* A second card of the same suit has been played boosted, and it changed
\* more of the board than the plain effect would have.
C7_Witness ==
    /\ lastCall.op = "playCard" /\ lastCall.ok
    /\ Len(moveHistory) = 2
    /\ moveHistory[1].type = "card"
    /\ moveHistory[1].player = LastEvent.player
    /\ moveHistory[1].data.card.suit = LastEvent.data.card.suit
    /\ LastEvent.data.effect.isPowerChain
    /\ LastEvent.data.effect.type = "strike"
    /\ Cardinality({s \in ValidSquares : board[s] # NoPiece}) = 29

\* C8: a successful play of a card of suit s by P leaves P's chain {s, c + 1}
\* if it was {s, c} and {s, 1} otherwise; a failed playCard changes no chain.
C8_ChainRecording ==
    [][/\ (Succeeded /\ lastCall'.op = "playCard") =>
            LET P == LastEvent'.player
                s == LastEvent'.data.card.suit
            IN powerChains'[P] = IF powerChains[P].suit = s
                                 THEN [suit |-> s, count |-> powerChains[P].count + 1]
                                 ELSE [suit |-> s, count |-> 1]
       /\ (Failed /\ lastCall'.op = "playCard") => powerChains' = powerChains]_vars

\* A chain of two cards has been recorded; and a playCard has failed while a
\* chain stood.
C8_Witness ==
    \/ /\ lastCall.op = "playCard" /\ lastCall.ok
       /\ powerChains[LastEvent.player].count = 2
    \/ /\ lastCall.op = "playCard" /\ ~lastCall.ok
       /\ \E p \in Players : powerChains[p].count = 1

C10_RoyalAssassinGating ==
    \A fromCourt \in BOOLEAN :
        LET player == PlayerOfTurn(chessTurn)
            sourceCards == IF fromCourt THEN courtCards[player] ELSE hands[player]
            kingSquare == getOpponentKingSquare(board, chessTurn)
        IN (FindIndex(sourceCards, <<"S", "A">>) # 0 /\ kingSquare # <<>>) =>
              (CardPlayAccepted(<<"S", "A">>, [EmptyTargets EXCEPT !.target = kingSquare], fromCourt)
                 <=> IsKingAttacked(board, OpponentColor(chessTurn)))

----------------------------------------------------------------------------
(* Properties of the four effects *)

\* The step is a playCard call that returned true, of a card of the suit.
CardPlayed(suit) ==
    /\ lastCall'.op = "playCard" /\ lastCall'.ok
    /\ LastEvent'.data.card.suit = suit

\* The step is a playCard call that returned false.
CardRefused == lastCall'.op = "playCard" /\ ~lastCall'.ok

KingsOf(b, color) == {s \in ValidSquares : b[s] = Piece("k", color)}

PiecesOf(b, color) == {s \in ValidSquares : b[s].color = color}

\* The squares whose content differs between two boards.
Changed(b1, b2) == {s \in ValidSquares : b1[s] # b2[s]}

\* C11: a Spades play removes a King only when the card is an Ace, the King
\* stands on the target square, and that King is in check; so a non-Ace Spades
\* play on the opponent King's square is rejected and the second piece of a
\* boosted Strike is never a King.
C11_StrikeSparesKing ==
    [][CardPlayed("spades") =>
         LET e == LastEvent'
         IN \A s \in ValidSquares :
               (board[s].type = "k" /\ board'[s] # board[s]) =>
                  /\ e.data.effect.isAce
                  /\ s = e.data.targets.target
                  /\ IsKingAttacked(board, board[s].color)]_vars

\* C12: a successful Hearts, Diamonds or Clubs play leaves each colour with
\* as many kings on the board as it had before the play.
C12_KingsPreserved ==
    [][(CardPlayed("hearts") \/ CardPlayed("diamonds") \/ CardPlayed("clubs")) =>
         \A c \in Colors :
            Cardinality(KingsOf(board', c)) = Cardinality(KingsOf(board, c))]_vars

\* The CardTargets a call with the card id can carry: an object, or the
\* conversion of a legacy string.
CallTargets(cardId) ==
    TargetInputs \cup {convertLegacyTarget(cardId, t) : t \in LegacyInputs}

\* The source named by fromCourt, of the side to move, holds the card id, and
\* the card is of the suit.
HoldsCard(cardId, fromCourt, suit) ==
    LET player == PlayerOfTurn(chessTurn)
        sourceCards == IF fromCourt THEN courtCards[player] ELSE hands[player]
    IN /\ FindIndex(sourceCards, cardId) # 0
       /\ sourceCards[FindIndex(sourceCards, cardId)].suit = suit

\* A destination that is missing, off the board, or occupied.
BadDestination(b, destination) ==
    \/ Falsy(destination)
    \/ ~isValidSquare(destination)
    \/ Get(b, destination) # NoPiece

\* C13: a Hearts play whose destination is missing, off the board or occupied
\* returns false and leaves the board, the hands, the Courts and currentPlayer
\* as they were.
C13_RescueDestinationEmpty ==
    [][\A fromCourt \in BOOLEAN :
         \A cardId \in {id \in CardIdInputs : HoldsCard(id, fromCourt, "hearts")} :
            \A t \in CallTargets(cardId) :
               (BadDestination(board, t.destination) /\ PlayCardBody(cardId, t, fromCourt)) =>
                   /\ ~lastCall'.ok
                   /\ board' = board
                   /\ hands' = hands /\ courtCards' = courtCards
                   /\ currentPlayer' = currentPlayer]_vars

\* The legacy call playCard(id, 'e3') of a non-Ace Hearts card held by white,
\* made on white's turn with a white pawn on d2 and e3 empty: it is accepted
\* with source d2, and leaves the pawn on e3 (and, when not boosted, changes
\* nothing but d2 and e3).
LegacyRescueMovesD2Pawn ==
    \A fromCourt \in BOOLEAN, cardId \in CardIdInputs :
        (/\ chessTurn = "w" /\ currentPlayer = "white"
         /\ HoldsCard(cardId, fromCourt, "hearts") /\ cardId[2] # "A"
         /\ board[<<100, 2>>] = Piece("p", "w")
         /\ board[<<101, 3>>] = NoPiece) =>
            LET t == convertLegacyTarget(cardId, <<101, 3>>)
                effect == calculateCardEffect(powerChains, "white", createCard(cardId))
                after == applyCardEffect(board, "w", effect, t).board
            IN /\ t.source = <<100, 2>> /\ t.destination = <<101, 3>>
               /\ CardPlayAccepted(cardId, t, fromCourt)
               /\ after[<<101, 3>>] = Piece("p", "w")
               /\ ~effect.isPowerChain =>
                     after = [board EXCEPT ![<<100, 2>>] = NoPiece,
                                           ![<<101, 3>>] = Piece("p", "w")]

Vacated(b1, b2, color) ==
    {s \in ValidSquares : b1[s].color = color /\ b2[s] # b1[s]}

\* C15: a successful boosted Hearts play relocates the rescued piece and at
\* most one further own piece: at most two own pieces leave their squares.
C15_BoostedRescueMovesTwo ==
    [][(CardPlayed("hearts") /\ LastEvent'.data.effect.isPowerChain) =>
         Cardinality(Vacated(board, board', chessTurn)) <= 2]_vars

\* C16: a successful play of a non-Ace Hearts card leaves the acting
\* player's King on its square.
C16_RescueKeepsKing ==
    [][(CardPlayed("hearts") /\ ~LastEvent'.data.effect.isAce) =>
         KingsOf(board', chessTurn) = KingsOf(board, chessTurn)]_vars

\* C17: a successful boosted Spades play empties the target square, which
\* held an opposing piece, and exactly one further square holding an opposing
\* piece when there is one, and only the target square when there is none;
\* no other square changes, so no piece of the acting player is removed.
C17_BoostedStrike ==
    [][(CardPlayed("spades") /\ LastEvent'.data.effect.isPowerChain) =>
         LET t == LastEvent'.data.targets.target
             opponent == OpponentColor(chessTurn)
             others == PiecesOf(board, opponent) \ {t}
         IN /\ t \in PiecesOf(board, opponent)
            /\ \A s \in Changed(board, board') : board'[s] = NoPiece
            /\ IF others = {}
               THEN Changed(board, board') = {t}
               ELSE \E u \in others : Changed(board, board') = {t, u}]_vars

\* In the loaded position where black has two pieces (and white five), a
\* Strike has removed one and a boosted Strike has then succeeded on the last:
\* nothing else was there to remove, and white's pieces stand.
C17_Witness ==
    /\ lastCall.op = "playCard" /\ lastCall.ok
    /\ LastEvent.type = "card"
    /\ LastEvent.data.card.suit = "spades"
    /\ LastEvent.data.effect.isPowerChain
    /\ PiecesOf(board, "b") = {}
    /\ Cardinality(PiecesOf(board, "w")) = 5

\* A Strike target that is missing, off the board, an empty square, or a
\* square holding a piece of the side to move.
BadStrikeTarget(b, turn, target) ==
    \/ Falsy(target)
    \/ ~isValidSquare(target)
    \/ Get(b, target) = NoPiece
    \/ Get(b, target).color = turn

\* No Spades card the side to move holds is accepted on a bad Strike target.
BadStrikeTargetRefused ==
    \A fromCourt \in BOOLEAN :
        \A cardId \in {id \in CardIdInputs : HoldsCard(id, fromCourt, "spades")} :
            \A t \in CallTargets(cardId) :
                BadStrikeTarget(board, chessTurn, t.target)
                    => ~CardPlayAccepted(cardId, t, fromCourt)

\* C18: a Spades play whose target is missing, off the board, empty or the
\* acting player's own piece is not accepted, and a playCard that returns
\* false removes nothing; a successful Spades play that is not boosted empties
\* the target square, which held an opposing piece, and changes no other square.
C18_StrikeTarget ==
    /\ []BadStrikeTargetRefused
    /\ [][/\ CardRefused => board' = board
          /\ (CardPlayed("spades") /\ ~LastEvent'.data.effect.isPowerChain) =>
                LET t == LastEvent'.data.targets.target
                IN /\ t \in PiecesOf(board, OpponentColor(chessTurn))
                   /\ board' = [board EXCEPT ![t] = NoPiece]]_vars

\* A Spades card that was not boosted has removed one of the 32 pieces.
C18_Witness ==
    /\ lastCall.op = "playCard" /\ lastCall.ok
    /\ LastEvent.type = "card"
    /\ LastEvent.data.card.suit = "spades"
    /\ ~LastEvent.data.effect.isPowerChain
    /\ Len(moveHistory) = 1
    /\ Cardinality(PiecesOf(board, "b")) = 15
    /\ Cardinality(PiecesOf(board, "w")) = 16

\* A Diamonds card the side to move holds is accepted only on a target that
\* holds an own pawn, or any own piece when the card is the Ace.
UpgradeTargetRequired ==
    \A fromCourt \in BOOLEAN :
        \A cardId \in {id \in CardIdInputs : HoldsCard(id, fromCourt, "diamonds")} :
            \A t \in CallTargets(cardId) :
                CardPlayAccepted(cardId, t, fromCourt)
                    => IF cardId[2] = "A" THEN isOwnPiece(board, chessTurn, t.target)
                       ELSE isOwnPawn(board, chessTurn, t.target)

C20_BoostedUpgradeTwo ==
    [][(CardPlayed("diamonds") /\ LastEvent'.data.effect.isPowerChain) =>
         Cardinality({s \in ValidSquares :
                        board[s] # NoPiece /\ board'[s].type # board[s].type}) <= 2]_vars

----------------------------------------------------------------------------
(* Properties of the swap, of the cards' places and of the event log *)

\* A non-Ace Clubs card the side to move holds, played with two squares, is
\* accepted only when both squares hold pieces of the side to move.
SwapTargetsRequired ==
    \A fromCourt \in BOOLEAN :
        \A cardId \in {id \in CardIdInputs :
                         HoldsCard(id, fromCourt, "clubs") /\ id[2] # "A"} :
            \A t \in {u \in CallTargets(cardId) : ~Falsy(u.piece1) /\ ~Falsy(u.piece2)} :
                CardPlayAccepted(cardId, t, fromCourt)
                    => /\ isOwnPiece(board, chessTurn, t.piece1)
                       /\ isOwnPiece(board, chessTurn, t.piece2)

\* C21: a non-Ace Clubs play with two squares is accepted only when both hold
\* pieces of the acting player; a playCard that returns false leaves the
\* board unchanged; and after a successful one that is not boosted the two
\* pieces have exchanged squares and every other square is unchanged.
C21_NormalSwap ==
    /\ []SwapTargetsRequired
    /\ [][/\ CardRefused => board' = board
          /\ (/\ CardPlayed("clubs")
              /\ ~LastEvent'.data.effect.isAce
              /\ ~LastEvent'.data.effect.isPowerChain
              /\ ~Falsy(LastEvent'.data.targets.piece1)
              /\ ~Falsy(LastEvent'.data.targets.piece2)) =>
                LET p1 == LastEvent'.data.targets.piece1
                    p2 == LastEvent'.data.targets.piece2
                IN /\ p1 \in PiecesOf(board, chessTurn)
                   /\ p2 \in PiecesOf(board, chessTurn)
                   /\ board' = [board EXCEPT ![p1] = board[p2], ![p2] = board[p1]]]_vars

\* A non-Ace Clubs card that was not boosted has exchanged the white pawn of
\* d2 and the white queen of d1.
C21_Witness ==
    /\ lastCall.op = "playCard" /\ lastCall.ok
    /\ LastEvent.type = "card"
    /\ LastEvent.data.card.suit = "clubs"
    /\ ~LastEvent.data.effect.isAce
    /\ ~LastEvent.data.effect.isPowerChain
    /\ LastEvent.data.targets.piece1 = <<100, 2>>
    /\ LastEvent.data.targets.piece2 = <<100, 1>>
    /\ board[<<100, 2>>] = Piece("q", "w")
    /\ board[<<100, 1>>] = Piece("p", "w")

\* The cards of the draw pile and of the discard pile: what a draw can return.
Supply == deck \o discardPile

\* C24: after a successful playCard with fromCourt = true the played card,
\* which lay in the acting player's Court, is no longer there; if the supply
\* holds a card, the Court is the remaining cards followed by one card of the
\* supply, and holds as many cards as before; if it holds none the Court is
\* the remaining cards; the other player's Court and hand are unchanged.
C24_CourtReplacement ==
    [][(lastCall'.op = "playCard" /\ lastCall'.ok /\ lastCall'.fromCourt) =>
         LET P == LastEvent'.player
             court == courtCards[P]
             i == FindIndex(court, LastEvent'.data.card.id)
         IN /\ i # 0
            /\ LastEvent'.data.card.id \notin IdsOf(courtCards'[P])
            /\ IF Len(Supply) > 0
               THEN /\ \E k \in 1..Len(Supply) :
                          courtCards'[P] = Append(Splice(court, i), Supply[k])
                    /\ Len(courtCards'[P]) = Len(court)
               ELSE courtCards'[P] = Splice(court, i)
            /\ courtCards'[OtherPlayer(P)] = courtCards[OtherPlayer(P)]
            /\ hands'[OtherPlayer(P)] = hands[OtherPlayer(P)]]_vars

\* White has played two cards from its Court: the first was replaced by the
\* last card of the draw pile, the second could not be replaced.
C24_Witness ==
    /\ lastCall = Call("playCard", TRUE, TRUE)
    /\ Len(moveHistory) = DrainPlays + 2
    /\ Len(deck) = 0
    /\ Len(courtCards["white"]) = CourtSize - 1
    /\ <<"D", "K">> \in IdsOf(courtCards["white"])

\* C25: after a successful playCard from the hand the acting player's hand is
\* its previous cards without the played one, followed by one card of the
\* supply when the supply holds a card (so that a hand of 5 is again 5), and
\* by nothing otherwise; a successful playCard, from the hand or from the
\* Court, takes at most one card from the supply and leaves at most 5 cards
\* in the hand.
C25_HandTopUp ==
    [][(lastCall'.op = "playCard" /\ lastCall'.ok) =>
         LET P == LastEvent'.player
             hand == hands[P]
             i == FindIndex(hand, LastEvent'.data.card.id)
         IN /\ ~lastCall'.fromCourt =>
                 /\ i # 0
                 /\ IF Len(Supply) > 0
                    THEN /\ \E k \in 1..Len(Supply) :
                               hands'[P] = Append(Splice(hand, i), Supply[k])
                         /\ Len(hand) = HandSize => Len(hands'[P]) = HandSize
                    ELSE hands'[P] = Splice(hand, i)
            /\ Len(Supply) - Len(Supply') <= 1
            /\ Len(hands'[P]) <= HandSize]_vars

\* White has played two cards from its hand: the hand was topped up to 5 with
\* the last card of the draw pile after the first, and is left with 4 cards
\* after the second.
C25_Witness ==
    /\ lastCall = Call("playCard", FALSE, TRUE)
    /\ Len(moveHistory) = DrainPlays + 2
    /\ moveHistory[DrainPlays + 1].data.card.id \notin {<<"D","A">>, <<"D","7">>, <<"S","8">>}
    /\ Len(deck) = 0
    /\ Len(hands["white"]) = HandSize - 1
    /\ <<"D", "K">> \in IdsOf(hands["white"])

\* C26: after every successful action the player who acted holds exactly 5
\* hand cards and 3 Court cards.
C26_FullHandAndCourt ==
    (lastCall.op \in {"makeChessMove", "playCard"} /\ lastCall.ok) =>
        /\ Len(hands[LastEvent.player]) = HandSize
        /\ Len(courtCards[LastEvent.player]) = CourtSize

\* C27: a makeChessMove or playCard call that returns false leaves the board,
\* both hands, both Courts, the draw and discard piles, both chains and the
\* event log as they were.
C27_FailureAtomicity ==
    [][(lastCall'.op \in {"makeChessMove", "playCard"} /\ Failed) =>
         /\ board' = board
         /\ hands' = hands
         /\ courtCards' = courtCards
         /\ deck' = deck
         /\ discardPile' = discardPile
         /\ powerChains' = powerChains
         /\ moveHistory' = moveHistory]_vars

\* A playCard has failed on black's turn, after a chess move by white.
C27_Witness ==
    /\ lastCall.op = "playCard" /\ ~lastCall.ok
    /\ chessTurn = "b"
    /\ Len(moveHistory) = 1
    /\ moveHistory[1].type = "move"

\* The source a playCard call designates: the hand or the Court of a player.
DesignatedSource(player, fromCourt) ==
    IF fromCourt THEN courtCards[player] ELSE hands[player]

C29_EventLogAppendOnly ==
    /\ moveHistory = <<>>
    /\ [][/\ (lastCall'.op \in {"makeChessMove", "playCard"} /\ Succeeded) =>
               LET e == LastEvent'
               IN /\ moveHistory' = Append(moveHistory, e)
                  /\ IF lastCall'.op = "makeChessMove"
                     THEN /\ e.type = "move"
                          /\ e.player = PlayerOfTurn(board[e.data.from].color)
                     ELSE /\ e.type = "card"
                          /\ e.data.card.id \in IdsOf(AllCards(e.player))
          /\ (lastCall'.op \in {"makeChessMove", "playCard"} /\ Failed) =>
               moveHistory' = moveHistory]_vars

\* The log holds white's chess move followed by black's card play.
C29_Witness ==
    /\ Len(moveHistory) = 2
    /\ moveHistory[1].type = "move" /\ moveHistory[1].player = "white"
    /\ moveHistory[2].type = "card" /\ moveHistory[2].player = "black"
    /\ lastCall.op = "playCard" /\ lastCall.ok

\* The number of times a card occurs in a pile.
Count(pile, card) == Cardinality({i \in 1..Len(pile) : pile[i] = card})

\* C30: drawCard returns null exactly when the draw pile and the discard pile
\* are both empty; with an empty draw pile and k >= 1 cards in the discard
\* pile, the discard pile is left empty and the card returned together with
\* the k - 1 cards of the draw pile are the k cards that were discarded; with
\* a non-empty draw pile its last card is returned and the discard pile is
\* left as it was.
C30_DrawCard ==
    [][lastCall'.op = "drawCard" =>
         LET card == lastCall'.card
             k == Len(discardPile)
         IN /\ (card = NoCard) <=> (Len(deck) = 0 /\ k = 0)
            /\ (Len(deck) = 0 /\ k >= 1) =>
                  /\ discardPile' = <<>>
                  /\ Len(deck') = k - 1
                  /\ \E i \in 1..k : discardPile[i] = card
                  /\ \A i \in 1..k :
                        Count(Append(deck', card), discardPile[i]) = Count(discardPile, discardPile[i])
            /\ Len(deck) > 0 =>
                  /\ discardPile' = discardPile
                  /\ deck = Append(deck', card)]_vars

\* A draw from an empty draw pile has brought three discarded cards back:
\* one was returned and the other two are the draw pile.
C30_Witness ==
    /\ lastCall.op = "drawCard"
    /\ lastCall.card \in DiscardInputs
    /\ discardPile = <<>>
    /\ Len(deck) = 2
    /\ \A i \in 1..Len(deck) : deck[i] \in DiscardInputs

----------------------------------------------------------------------------
(* Properties of the card system, of the turn and of the chains *)

Min(a, b) == IF a < b THEN a ELSE b

\* The cards of a list.
CardsIn(pile) == {pile[i] : i \in 1..Len(pile)}

\* No card id occurs twice in a list.
NoDuplicates(pile) == Cardinality({pile[i].id : i \in 1..Len(pile)}) = Len(pile)

\* C31: dealCards(n) returns min(n, |draw pile| + |discard pile|) cards; each
\* card leaves the two piles as many times as it is returned and no other
\* card leaves them; the cards returned are pairwise distinct when the two
\* piles held no card twice; and nothing is returned when both piles are empty.
C31_DealCards ==
    [][lastCall'.op = "dealCards" =>
         LET cards == lastCall'.cards
             n == lastCall'.count
         IN /\ Len(cards) = Min(n, Len(Supply))
            /\ \A c \in CardsIn(Supply) \cup CardsIn(cards) :
                  Count(Supply', c) + Count(cards, c) = Count(Supply, c)
            /\ NoDuplicates(Supply) => NoDuplicates(cards)
            /\ Len(Supply) = 0 => cards = <<>>]_vars

\* A deal of 16 has emptied both piles and returned fewer than 16 cards, one
\* of them a card that had been discarded.
C31_Witness ==
    /\ lastCall.op = "dealCards"
    /\ lastCall.count = 2 * (HandSize + CourtSize)
    /\ Len(lastCall.cards) > 0
    /\ Len(lastCall.cards) < lastCall.count
    /\ NoDuplicates(lastCall.cards)
    /\ \E i \in 1..Len(lastCall.cards) : lastCall.cards[i] \in DiscardInputs
    /\ deck = <<>> /\ discardPile = <<>>

\* C32: in every state between two calls gameState.currentPlayer is the
\* player of the side chess.js has to move.
C32_TurnSynchronised == currentPlayer = PlayerOfTurn(chessTurn)

C34_SupplyConservation ==
    /\ Len(deck) + Len(discardPile) + Len(Outstanding) = Len(initializeDeck)
    /\ Len(deck) \in 0..Len(initializeDeck)
    /\ Len(discardPile) \in 0..Len(initializeDeck)
    /\ NoDuplicates(deck \o discardPile \o Outstanding)

\* The draw pile ran out, the three cards discarded were reshuffled into it,
\* one of them was drawn again and has been discarded a second time.
C34_Witness ==
    /\ lastCall.op = "discardCard"
    /\ Len(deck) = 2 /\ \A i \in 1..Len(deck) : deck[i] \in DiscardInputs
    /\ Len(discardPile) = 1
    /\ Len(Outstanding) = Len(initializeDeck) - 3

\* The cards a drawCard or dealCards call returned, in the order drawn.
Returned(call) ==
    IF call.op = "dealCards" THEN call.cards
    ELSE IF call.card = NoCard THEN <<>> ELSE <<call.card>>

\* C35: a drawCard or dealCards call either leaves the discard pile as it
\* was, and then the draw pile has lost the cards returned, popped from its
\* end, and nothing else; or it empties a discard pile that held cards, and
\* then the whole draw pile was drawn first and the cards drawn after it,
\* together with the new draw pile, are the cards that were discarded, each
\* as many times as it was discarded.
C35_ReshuffleKeepsCards ==
    [][lastCall'.op \in {"drawCard", "dealCards"} =>
         LET returned == Returned(lastCall')
             k == Len(deck)
         IN \/ /\ discardPile' = discardPile
               /\ deck = deck' \o Reverse(returned)
            \/ /\ discardPile # <<>>
               /\ discardPile' = <<>>
               /\ Len(returned) >= k
               /\ SubSeq(returned, 1, k) = Reverse(deck)
               /\ LET back == deck' \o SubSeq(returned, k + 1, Len(returned))
                  IN \A c \in CardsIn(back) \cup CardsIn(discardPile) :
                        Count(back, c) = Count(discardPile, c)]_vars

\* A deal of three took the last card of the draw pile and then two cards of
\* the reshuffled discard pile, which held the same card twice.
C35_Witness ==
    /\ lastCall.op = "dealCards"
    /\ Len(lastCall.cards) = 3
    /\ lastCall.cards[1] \notin DiscardInputs
    /\ lastCall.cards[2] = lastCall.cards[3]
    /\ discardPile = <<>>
    /\ Len(deck) = 1

\* The suits and the values as sets.
SuitSet == {Suits[i] : i \in 1..Len(Suits)}
ValueSet == {Values[i] : i \in 1..Len(Values)}

\* C36: after reset(), whatever the piles held before, the draw pile holds 52
\* cards with 52 different ids, 13 of each suit and 4 of each value, the id
\* of each being the initial of its suit followed by its value, and the
\* discard pile is empty.
C36_Reset ==
    [][lastCall'.op = "reset" =>
         /\ discardPile' = <<>>
         /\ Len(deck') = 52
         /\ NoDuplicates(deck')
         /\ \A s \in SuitSet : Cardinality({i \in 1..Len(deck') : deck'[i].suit = s}) = 13
         /\ \A v \in ValueSet : Cardinality({i \in 1..Len(deck') : deck'[i].value = v}) = 4
         /\ \A i \in 1..Len(deck') :
               /\ deck'[i].suit \in SuitSet /\ deck'[i].value \in ValueSet
               /\ deck'[i].id = <<SuitPrefix(deck'[i].suit), deck'[i].value>>]_vars

\* reset() has been called.
C36_Witness ==
    /\ lastCall.op = "reset"
    /\ Len(deck) = Len(initializeDeck)
    /\ discardPile = <<>>

\* C37: a new game has white to move, five cards in each hand and three in
\* each Court, all sixteen different, 36 cards in the draw pile, an empty
\* discard pile, both chains {none, 0} and an empty event log.
C37_InitialState ==
    lastCall.op = "new" =>
        /\ chessTurn = "w"
        /\ currentPlayer = "white"
        /\ \A p \in Players : Len(hands[p]) = 5 /\ Len(courtCards[p]) = 3
        /\ NoDuplicates(AllCards("white") \o AllCards("black"))
        /\ Len(AllCards("white") \o AllCards("black")) = 16
        /\ Len(deck) = 36
        /\ discardPile = <<>>
        /\ \A p \in Players : powerChains[p] = [suit |-> "none", count |-> 0]
        /\ moveHistory = <<>>

\* The new game whose shuffle gave white the five of hearts first.
C37_Witness ==
    /\ lastCall.op = "new"
    /\ hands["white"][1].id = <<"H", "5">>
    /\ board = StartPosition

\* The suits of the cards a player has played with success, oldest first.
IsCardEventOf(p, event) == event.type = "card" /\ event.player = p

PlayedSuits(p) ==
    LET plays == SelectSeq(moveHistory, LAMBDA event : IsCardEventOf(p, event))
    IN [i \in 1..Len(plays) |-> plays[i].data.card.suit]

\* The length of the longest run of equal entries at the end of a list.
RECURSIVE TrailingRun(_)
TrailingRun(s) ==
    IF Len(s) <= 1 THEN Len(s)
    ELSE IF s[Len(s) - 1] = s[Len(s)] THEN 1 + TrailingRun(SubSeq(s, 1, Len(s) - 1))
    ELSE 1

\* C38: the chain of a player who has played no card with success is
\* {none, 0}; otherwise its suit is the suit of the last card the player
\* played with success and its count is the length of the run of cards of
\* that suit at the end of the player's own successful card plays; the
\* count is at least 1 exactly when the suit is not none.
C38_ChainIsTrailingRun ==
    \A p \in Players :
        LET suits == PlayedSuits(p)
        IN /\ suits = <<>> => powerChains[p] = [suit |-> "none", count |-> 0]
           /\ suits # <<>> =>
                 /\ powerChains[p].suit = suits[Len(suits)]
                 /\ powerChains[p].count = TrailingRun(suits)
           /\ (powerChains[p].count >= 1) <=> (powerChains[p].suit # "none")

\* White has played two cards of different suits: the run at the end is one
\* card long and black's chain is untouched.
C38_Witness ==
    /\ Len(PlayedSuits("white")) = 2
    /\ PlayedSuits("white")[1] # PlayedSuits("white")[2]
    /\ powerChains["white"] = [suit |-> PlayedSuits("white")[2], count |-> 1]
    /\ powerChains["black"].count = 0

\* The number of squares of a board that hold a given piece.
PieceCount(b, piece) == Cardinality({s \in ValidSquares : b[s] = piece})

PieceTypes == {"p", "n", "b", "r", "q", "k"}

\* C39: a successful Clubs play, Ace or not, boosted or not, leaves as many
\* pieces of every type and colour on the board as there were.
C39_SwapConservesPieces ==
    [][CardPlayed("clubs") =>
         \A t \in PieceTypes, c \in Colors :
             PieceCount(board', Piece(t, c)) = PieceCount(board, Piece(t, c))]_vars

\* The value of a rank in a joust: 2 to 10 count themselves, J 11, Q 12,
\* K 13 and A 14.
JoustRank(value) == IF value = "A" THEN 14 ELSE IF value = "J" THEN 11
                    ELSE IF value = "Q" THEN 12 ELSE IF value = "K" THEN 13
                    ELSE ValueIndex(value)

\* C40: for every two cards, validateJoust finds the attacker the winner
\* exactly when the attacking card's rank is the higher, the defender exactly
\* when the defending card's is, and a tie exactly when the ranks are equal,
\* whatever the suits; compareCards(a, b) is the difference of the ranks, the
\* opposite of compareCards(b, a), and 0 exactly for equal ranks.
C40_JoustComparison ==
    LET a == JoustRank(lastCall.attack.value)
        d == JoustRank(lastCall.defend.value)
    IN /\ lastCall.op = "validateJoust" =>
             /\ lastCall.expected = "attacker" => ((lastCall.result.errors = <<>>) <=> (a > d))
             /\ lastCall.expected = "defender" => ((lastCall.result.errors = <<>>) <=> (d > a))
             /\ lastCall.expected = "tie" => ((lastCall.result.errors = <<>>) <=> (a = d))
       /\ lastCall.op = "compareCards" =>
             /\ lastCall.result = a - d
             /\ lastCall.result = 0 - compareCards(lastCall.defend, lastCall.attack)
             /\ (lastCall.result = 0) <=> (lastCall.attack.value = lastCall.defend.value)

\* The five of spades attacked the Ace of diamonds and the defender was
\* found the winner.
C40_Witness ==
    /\ lastCall.op = "validateJoust"
    /\ lastCall.attack.id = <<"S", "5">>
    /\ lastCall.defend.id = <<"D", "A">>
    /\ lastCall.expected = "defender"
    /\ lastCall.result.errors = <<>>

=============================================================================
